----------------------------- MODULE StackWalk -----------------------------
(***************************************************************************)
(* How the return addresses of a stack trace are found (option -k:         *)
(* print_libunwind_backtrace and print_i386_ebp_backtrace in syscall.c).   *)
(* libunwind is asked for a 64-bit program; a 32-bit one, and any with -K, *)
(* is walked along its frame pointers, which may lead anywhere.            *)
(***************************************************************************)
EXTENDS Integers, Sequences

CONSTANTS Frames,       \* the frames of the stack are 1..Frames
          MaxDepth,     \* 255: the steps of libunwind that are believed
          MaxPrinted    \* bound: addresses of a trace

ASSUME StackWalkAssumption ==
    Frames \in Nat /\ MaxDepth \in Nat /\ MaxPrinted \in Nat /\ MaxDepth + 1 < MaxPrinted

VARIABLE walk
(* walk.stack is the memory: whether the return address next to a frame    *)
(* pointer can be read (ret), and what is found at the pointer (up).  fp   *)
(* and retaddr are cur_ebp and retaddr, printed the addresses printed, n   *)
(* the steps of libunwind; first and passed (not in the code) the frame of *)
(* the task and those walked.                                              *)

NULL_FP    == 0
Nowhere    == Frames + 1        \* a frame pointer to memory that cannot be read
Unreadable == -1
RIP        == 100
ReturnIn(f) == 100 + f          \* the address in frame f

NoWalk == [pc |-> "none"]

(* Every way the frame pointers may lead, cycles included. *)
Stacks == [1..Frames -> [ret : BOOLEAN, up : {Unreadable} \cup 0..Nowhere]]
Slot(stack, f) ==
    IF f = Nowhere THEN [ret |-> Unreadable, up |-> Unreadable]
    ELSE [ret |-> IF stack[f].ret THEN ReturnIn(f) ELSE Unreadable, up |-> stack[f].up]

(* The pointer chain from fp ends, at NULL or at memory that cannot be read. *)
RECURSIVE ChainEnds(_, _, _)
ChainEnds(stack, fp, n) ==
    fp \in {NULL_FP, Unreadable} \/ (n > 0 /\ ChainEnds(stack, Slot(stack, fp).up, n - 1))

-----------------------------------------------------------------------------
(* IS_32BIT_EMU || !use_libunwind *)
crawls(emu32, use_libunwind) == emu32 \/ ~use_libunwind

(* The instruction pointer first; the registers are those of the task. *)
output_stacktrace_starts(emu32, use_libunwind, fp) ==
    /\ walk.pc = "start"
    /\ walk' = [walk EXCEPT !.pc = IF crawls(emu32, use_libunwind) THEN "crawl" ELSE "unwind",
                            !.printed = IF crawls(emu32, use_libunwind) THEN <<RIP>> ELSE <<>>,
                            !.fp = fp, !.first = fp]

(* The registers cannot be read, or libunwind gives none: the tracer exits. *)
output_stacktrace_exits ==
    /\ walk.pc \in {"start", "unwind"}
    /\ walk' = [walk EXCEPT !.pc = "exited"]

(* One frame: the return address, then the frame above.  Only the second   *)
(* read is tested; if the first one failed, retaddr is what it was.        *)
print_i386_ebp_backtrace_up(w) ==              \* Mutant: the frame above first
    LET up == Slot(w.stack, w.fp).up
        at == IF up \in 1..Nowhere THEN up ELSE w.fp
        r  == IF Slot(w.stack, at).ret = Unreadable THEN w.retaddr ELSE Slot(w.stack, at).ret
    IN  [w EXCEPT !.retaddr = r, !.printed = Append(@, r), !.passed = Append(@, w.fp),
                  !.fp = IF up = Unreadable THEN @ ELSE up,
                  !.pc = IF up \in {NULL_FP, Unreadable} THEN "done" ELSE @]
print_i386_ebp_backtrace(w) ==
    LET slot == Slot(w.stack, w.fp)
        r    == IF slot.ret = Unreadable THEN w.retaddr ELSE slot.ret
    IN  [w EXCEPT !.retaddr = r, !.printed = Append(@, r), !.passed = Append(@, w.fp),
                  !.fp = IF slot.up = Unreadable THEN @ ELSE slot.up,
                  !.pc = IF slot.up \in {NULL_FP, Unreadable} THEN "done" ELSE @]

Crawl ==
    /\ walk.pc = "crawl" /\ Len(walk.printed) < MaxPrinted
    /\ walk' = IF walk.fp = NULL_FP THEN [walk EXCEPT !.pc = "done"]
               ELSE print_i386_ebp_backtrace(walk)

(* External: libunwind finds some address and tells if there is more       *)
(* above; on bad unwind information it may always say so.                  *)
unw_more(n, ret) == ret /\ n <= MaxDepth + 1                     \* Mutant: one too many
print_libunwind_backtrace(n, ret) == ret /\ n <= MaxDepth
Unwind(addr, ret) ==
    /\ walk.pc = "unwind" /\ Len(walk.printed) < MaxPrinted
    /\ walk' = [walk EXCEPT !.printed = Append(@, addr), !.n = @ + 1,
                            !.pc = IF print_libunwind_backtrace(walk.n + 1, ret) THEN @ ELSE "done"]

WalkInit ==
    \E s \in Stacks :
        walk = [pc |-> "start", stack |-> s, fp |-> NULL_FP, first |-> NULL_FP, retaddr |-> 0,
                printed |-> <<>>, passed |-> <<>>, n |-> 0]
WalkNext ==
    \/ \E emu32, use \in BOOLEAN, fp \in 0..Nowhere : output_stacktrace_starts(emu32, use, fp)
    \/ output_stacktrace_exits
    \/ Crawl
    \/ \E ret \in BOOLEAN : Unwind(RIP, ret)

WalkSpec == WalkInit /\ [][WalkNext]_walk

-----------------------------------------------------------------------------
(* The addresses along frame pointers are the instruction pointer and then *)
(* the return address of every frame, in order, up to the first frame that *)
(* has none above it; where one cannot be read the address below it is     *)
(* printed again (0 for the first), and no frame is passed over.           *)
FramesInOrder ==
    walk.pc \in {"crawl", "done"} /\ walk.n = 0 =>
        /\ Len(walk.printed) = Len(walk.passed) + 1 /\ walk.printed[1] = RIP
        /\ walk.passed # <<>> => walk.passed[1] = walk.first
        /\ \A i \in 1..Len(walk.passed) :
              /\ i > 1 => Slot(walk.stack, walk.passed[i - 1]).up = walk.passed[i]
              /\ LET r == Slot(walk.stack, walk.passed[i]).ret
                     below == IF i = 1 THEN 0 ELSE walk.printed[i]
                 IN  walk.printed[i + 1] = IF r = Unreadable THEN below ELSE r

(* A stack trace ends: after one address more than libunwind is believed   *)
(* for, and along frame pointers after every frame once, unless they lead  *)
(* around in a circle, where nothing stops the walk.                       *)
WalkEnds ==
    walk.pc \in {"crawl", "unwind", "done"} =>
        /\ walk.n <= MaxDepth + 1
        /\ walk.pc # "unwind" /\ walk.n = 0 /\ ChainEnds(walk.stack, walk.first, Frames + 1) =>
              Len(walk.printed) <= Frames + 2
=============================================================================
