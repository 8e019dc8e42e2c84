------------------------------ MODULE DecodeNet ------------------------------
(* What the decoders of net.c print: see Lines for the form.               *)
EXTENDS DecodeIo

sock_type_flags == NoZero
msg_flags       == NoZero
icmpfilterflags == NoZero

(* By address family.  The hardware address of a packet socket opens a     *)
(* bracket that is never closed.                                           *)
printsock ==
    LET inet6  == v ++ (v ** Paren(Vals(3))) ++ Vals(2)
        ipx    == v ++ (v ** bar ** Square(v))
        packet == Vals(3) ++ (named ** {<<"{">>} ** Vals(2))
    IN  v \cup Curly(v) \cup Curly(v ++ (v \cup Vals(2) \cup inet6 \cup ipx \cup packet))

(* The credentials follow the type without a separator. *)
printcmsghdr ==
    sep ** (v \cup Curly(Vals(3) ++ Curly(Items(v)))
              \cup Curly(Vals(3) ** Curly(Vals(3)))
              \cup Curly(Vals(3) ++ v))
do_msghdr ==
    Curly(Args(<<named ** printsock, named ** tprint_iov_upto, v ** Opt(printcmsghdr),
                 named ** printflags(msg_flags, TRUE)>>))
printmsghdr  == v \cup do_msghdr
printmmsghdr == v \cup Curly(do_msghdr ++ v)
decode_mmsg(err) ==
    (IF err THEN v ELSE Curly(List(printmmsghdr))) ++ v ++ printflags(msg_flags, TRUE)

tprint_sock_type ==
    v \cup (v ** bar ** printflags(sock_type_flags, TRUE)) \cup printflags(sock_type_flags, TRUE)

protocol   == v \cup Square(printxval)
sys_socket == Entry(printxval ++ tprint_sock_type ++ protocol)
sys_bind   == Entry(v ++ printsock ++ v)
sys_connect == sys_bind
sys_listen == Entry(Vals(2))

do_accept(F) ==
    Call(v ** sep, (Vals(2) \cup ((v \cup printsock) ++ printnum_int)) ** F,
         (Vals(2) \cup (v ++ printnum_int)) ** F)
sys_accept      == do_accept(nothing)
sys_accept4     == do_accept(sep ** printflags(sock_type_flags, TRUE))
sys_getsockname == sys_accept
sys_getpeername == sys_accept

sys_send    == Entry(v ++ printstr ++ v ++ printflags(msg_flags, TRUE))
sys_sendto  == Entry(v ++ printstr ++ v ++ printflags(msg_flags, TRUE) ++ printsock ++ v)
sys_sendmsg == Entry(v ++ printmsghdr ++ printflags(msg_flags, TRUE))
sys_sendmmsg ==
    Entry(Vals(3) ++ printflags(msg_flags, TRUE))
    \cup Call(v ** sep, decode_mmsg(FALSE), decode_mmsg(TRUE))

sys_recv ==
    LET X == v ++ v ++ printflags(msg_flags, TRUE)
    IN  Both(v ** sep, X)
sys_recvfrom ==
    Call(v ** sep,
         printstr ++ v ++ printflags(msg_flags, TRUE)
           ++ (Vals(2) \cup (Curly(v) ++ Square(v)) \cup (printsock ++ Square(v))),
         Vals(5))
sys_recvmsg ==
    Call(v ** sep, printmsghdr ++ printflags(msg_flags, TRUE), v ++ printflags(msg_flags, TRUE))

(* The timeout is read on entry and kept in auxstr until it is printed. *)
sys_recvmmsg ==
    Explained(Opt(v), Entry(Vals(3) ++ printflags(msg_flags, TRUE) ++ print_timespec))
    \cup Explained(v \cup (named ** sprint_timespec),
                   Call(v ** sep, Args(<<decode_mmsg(FALSE), sprint_timespec>>),
                        Args(<<decode_mmsg(TRUE), sprint_timespec>>)))

sys_shutdown == Entry(v ++ printxval)

do_pipe(F) == Exit((Square(v) \cup Square(Vals(2))) ** F, v ** F)
sys_pipe   == do_pipe(nothing)
sys_pipe2  == do_pipe(sep ** printflags(open_mode_flags, TRUE))

sys_socketpair ==
    Call(printxval ++ tprint_sock_type ++ protocol,
         sep ** (Square(v) \cup Square(Vals(2))), sep ** v)

sys_getsockopt ==
    Call((v ++ printxval ++ v) ** sep,
         Vals(2) \cup ((Curly(Vals(2)) \cup Curly(Vals(3)) \cup printnum_int \cup printstr)
                       ++ Square(v)),
         Vals(2))

printicmpfilter == v \cup Curly(v) \cup (v ** Paren(printflags(icmpfilterflags, TRUE)))
printsockopt ==
    printxval ++ v ++ (Curly(Vals(2)) \cup Curly(Vals(4)) \cup printicmpfilter
                       \cup printnum_int \cup printstr)
sys_setsockopt == Entry(v ++ printsockopt ++ v)
=============================================================================
