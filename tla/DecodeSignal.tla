---------------------------- MODULE DecodeSignal ----------------------------
(* What the decoders of signal.c and desc.c print: see Lines for the form. *)
EXTENDS DecodeFile

-----------------------------------------------------------------------------
(* signal.c *)

sigact_flags      == NoZero
sigaltstack_flags == NoZero

signame     == v
printsignal == signame

(* The members of the mask, or after "~" the others, separated by blanks. *)
sprintsigmask(prefix) == prefix ** Square(nothing \cup v \cup (v ** bar ** v))
printsigmask          == sprintsigmask(nothing)
print_sigset          == v \cup printsigmask

(* "[?]" stands for a set that cannot be read. *)
copied_sigset == Square(v) \cup printsigmask

(* The fields that depend on the sender and on the signal. *)
printsiginfo ==
    LET value == Opt(sep ** (v \cup (named ** Curly(Vals(2)))))
        user  == (sep ** Vals(2)) ** value
        child == sep ** (Vals(2) ++ (v \cup Vals(2)))
        rest  == nothing \cup user \cup child \cup (sep ** v) \cup value
    IN  Curly(nothing) \cup Curly(Vals(2) ** (nothing \cup (sep ** v)) ** rest)
printsiginfo_at(err) == v \cup IF err THEN {} ELSE Curly(v) \cup printsiginfo

sys_sigsetmask ==
    Explained(sprintsigmask(named), Entry(printsigmask))

(* The structure the argument points at; the restorer follows the old one  *)
(* on exit, read or not.                                                   *)
sigaction_t ==
    v \cup Curly(v)
      \cup Curly(v ++ printsigmask ++ (printflags(sigact_flags, TRUE) ** Opt(sep ** v)))
sys_sigaction ==
    Both((printsignal ++ sigaction_t) ** sep, sigaction_t ++ v)

sys_signal == Explained(Opt(v), Entry(printsignal ++ v))

sys_sigreturn == Entry(nothing)

(* The mask is attached to the result whether or not the call failed. *)
sys_siggetmask ==
    {[c EXCEPT !.aux = a] : c \in Entry(nothing), a \in sprintsigmask(named)}

sys_sigsuspend == Entry(printsigmask)

print_stack_t ==
    v \cup Curly(v ++ (named ** printflags(sigaltstack_flags, TRUE)) ++ v)
sys_sigaltstack == Both(print_stack_t, sep ** print_stack_t)

sys_sigprocmask == Call((printxval ++ print_sigset) ** sep, print_sigset, v)

sys_kill       == Entry(v ++ signame)
sys_tgkill     == Entry(Vals(2) ++ signame)
sys_sigpending == Exit(copied_sigset, v)

sys_rt_sigprocmask ==
    Call((printxval ++ (v \cup printsigmask)) ** sep, (v \cup copied_sigset) ++ v, v ++ v)
sys_rt_sigaction ==
    Both((printsignal ++ sigaction_t) ** sep, sigaction_t ++ v)
sys_rt_sigpending == Exit(copied_sigset, v)
sys_rt_sigsuspend == Entry(copied_sigset)

print_sigqueueinfo    == printsignal ++ printsiginfo_at(FALSE)
sys_rt_sigqueueinfo   == Entry(v ++ print_sigqueueinfo)
sys_rt_tgsigqueueinfo == Entry(Vals(2) ++ print_sigqueueinfo)

(* With no place for the signal's information all is printed on entry. *)
sys_rt_sigtimedwait ==
    LET rest == print_timespec ++ v
    IN  Entry(copied_sigset ++ v ++ rest)
        \cup Call(copied_sigset ** sep,
                  printsiginfo_at(FALSE) ++ rest, printsiginfo_at(TRUE) ++ rest)

sys_restart_syscall == Entry(v)

do_signalfd(F) == Entry((printfd ++ print_sigset ++ v) ** F)
sys_signalfd   == do_signalfd(nothing)
sys_signalfd4  == do_signalfd(sep ** printflags(open_mode_flags, TRUE))

-----------------------------------------------------------------------------
(* desc.c *)

fdflags               == NoZero
flockcmds             == NoZero
notifyflags           == NoZero
perf_event_open_flags == NoZero
epollevents           == NoZero
epollflags            == NoZero

cmd == {<<"cmd">>}

printflock64(getlk) == Curly(v) \cup Curly(Vals(IF getlk THEN 5 ELSE 4))
printflock(getlk) ==
    Curly(v) \cup Curly(Vals(IF getlk THEN 5 ELSE 4)) \cup v

(* By command: arguments on entry, structures filled in by the call on     *)
(* exit, flag words explained after the result.                            *)
sys_fcntl ==
    LET E(arg) == (printfd ++ cmd) ** arg
    IN  Entry(E(sep ** printflags(fdflags, TRUE)))
        \cup Entry(E(sep ** v))
        \cup Entry(E(sep ** tprint_open_modes))
        \cup Entry(E(sep ** printflock(FALSE)))
        \cup Both(E(sep ** printflock64(FALSE)), sep ** v)
        \cup Entry(E(sep ** printflags(notifyflags, TRUE)))
        \cup Entry(E(nothing))
        \cup Explained(Opt(sprintflags(named)), Entry(E(nothing)))
        \cup Explained(sprint_open_modes, Entry(E(nothing)))
        \cup Explained(Opt(v), Entry(E(nothing)))
        \cup Both(E(nothing), sep ** (printflock(TRUE) \cup printflock64(TRUE)))
        \cup Both(E(nothing), sep ** v)

sys_flock == Entry(printfd ++ printflags(flockcmds, TRUE))
sys_close == Entry(printfd)

do_dup2(F) == Entry((printfd ++ printfd) ** F)
sys_dup2   == do_dup2(nothing)
sys_dup3   == do_dup2(sep ** printflags(open_mode_flags, TRUE))

(* The text after the result: the sets in which descriptors are ready.     *)
(* sets says of each of the three whether it is skipped (NULL or           *)
(* unreadable), has no ready descriptor or some; n is how many the result  *)
(* counts, which ends the scan when all have been seen.  A set without     *)
(* members that is scanned after one with members adds one more "]".       *)
ReadySets(sets, n) ==
    LET Scan(st, s) ==
            LET text == IF s = "some"
                        THEN st.text \o (IF st.text = <<>> THEN <<>> ELSE <<",">>)
                                     \o <<"=", "[", "v">>
                        ELSE st.text
                left == IF s = "some" THEN st.left - 1 ELSE st.left
            IN  IF st.left = 0 \/ s = "skip" THEN st
                ELSE [text |-> IF text # <<>> THEN text \o <<"]">> ELSE text, left |-> left]
    IN  FoldLeft(Scan, [text |-> <<>>, left |-> n], sets).text

decode_select ==
    LET set   == v \cup Square(v) \cup Square(nothing) \cup Square({<<"fd">>} ** bar ** {<<"fd">>})
        kinds == {"skip", "empty", "some"}
        ready == {ReadySets(<<a, b, c>>, n) : a, b, c \in kinds, n \in 1..3}
        left  == ready \cup {IF r = <<>> THEN t ELSE r \o <<",">> \o t :
                                r \in ready, t \in named ** sprinttv}
    IN  Explained(v \cup left, Entry(Args(<<v, set, set, set, printtv_bitness>>)))
        \cup Entry(v ++ Vals(3) ++ printtv_bitness)

(* An argument block that cannot be read is reported on entry, and again   *)
(* on exit.                                                                *)
sys_oldselect == decode_select \cup Both(Square(v), Square(v))
sys_select    == decode_select
sys_pselect6  ==
    LET data == v \cup Curly((v \cup print_sigset) ++ v)
    IN  ThenIn(decode_select, sep ** data)

sys_epoll_create  == printargs_ld(1)
sys_epoll_create1 == Entry(printflags(epollflags, TRUE))

print_epoll_event ==
    Curly(printflags(epollevents, TRUE) ++ Curly(Vals(2)))
sys_epoll_ctl ==
    Entry(printfd ++ printxval ++ printfd ++ (v \cup print_epoll_event \cup Curly(v)))

epoll_wait_common(rest) ==
    LET events == Curly(List(print_epoll_event))
                  \cup (Curly(v \cup (print_epoll_event ++ v)) ** bar ** v)
    IN  Call(printfd ** sep, (events ++ Vals(2)) ** rest, (v ++ Vals(2)) ** rest)
sys_epoll_wait  == epoll_wait_common(nothing)
sys_epoll_pwait == epoll_wait_common(sep ** print_sigset)

sys_io_setup   == Call(v ** sep, Curly(v), v)
sys_io_destroy == Entry(v)
sys_io_submit  == Entry(Vals(2) ++ (Curly(nothing) \cup v))
sys_io_cancel  == Both((v ++ Curly(v)) ** sep, Curly(v))

(* Without libaio the events are elided, and no separator follows them. *)
sys_io_getevents ==
    Call(Vals(3) ** sep, (Curly(nothing) \cup Curly(v)) ** print_timespec,
         Curly(v) ** print_timespec)

do_eventfd(F) == Entry(v ** F)
sys_eventfd   == do_eventfd(nothing)
sys_eventfd2  == do_eventfd(sep ** printflags(open_mode_flags, TRUE))

sys_perf_event_open == Entry(Vals(4) ++ printflags(perf_event_open_flags, TRUE))
=============================================================================
