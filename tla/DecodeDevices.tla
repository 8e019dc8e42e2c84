---------------------------- MODULE DecodeDevices ----------------------------
(* What the decoders of ioctl commands print (term.c, sock.c, block.c,     *)
(* scsi.c, loop.c, mtd.c, ioctl.c, io.c), and those of stream.c, quota.c   *)
(* and bjm.c: see Lines for the form.                                      *)
EXTENDS DecodeNet, DecodeSignal

-----------------------------------------------------------------------------
(* A command's decoder prints the separator and the argument, on entry or  *)
(* on exit.  It answers 0 on exit (not_decoded) when it left the argument  *)
(* to sys_ioctl.                                                           *)
not_decoded == {<<"0">>}
OnExit(A)   == Exit(sep ** A, sep ** A)

modem_flags        == NoZero
iffflags           == NoZero
loop_flags_options == NoZero
mtd_flags_options  == NoZero

(* Commands with a structure, and commands with a number, flags, a         *)
(* character or nothing.                                                   *)
term_structures ==
    LET tios  == Curly(v ** bar ** v) \cup Curly(Vals(6)) \cup Curly(Vals(8))
        sizes == Curly(Vals(4)) \cup Curly(Vals(2))
        set   == sep ** (tios \cup sizes)
    IN  Exit(set \cup not_decoded, not_decoded) \cup Exit(set, set)
term_values ==
    OnExit(printxval) \cup OnExit(v) \cup OnExit(Square(printflags(modem_flags, TRUE)))
    \cup OnExit(printnum_int) \cup OnExit(printstr) \cup Exit(nothing, nothing)
term_ioctl == term_structures \cup term_values \cup Exit(not_decoded, not_decoded)

(* Numbers are printed with the separator in the format, so it ends up     *)
(* inside the brackets, or is missing.                                     *)
print_addr == v \cup (v ** Paren(v))
sock_family == Curly(printxval ++ print_addr)
sock_ifreq ==
    LET field == v \cup (named ** sock_family) \cup (named ** printflags(iffflags, TRUE))
                   \cup (named ** Curly(Vals(6)))
    IN  Exit(sep ** (v \cup Curly(v ++ field)), sep ** (v \cup Curly(Vals(2))))
sock_ifconf ==
    LET open == sep ** {<<"{">>} ** Opt(v ** bar)
        ifra == Curly(v ++ (sock_family \cup Curly(v)))
        close(A) == A ** {<<"}">>}
    IN  Call(open, close(v \cup Vals(2) \cup (v ++ Curly(List(ifra)))), close(v \cup Vals(2)))
sock_ioctl ==
    LET number == v \cup Square(sep ** v)
    IN  Exit(number, number) \cup sock_ifreq \cup sock_ifconf \cup Exit(not_decoded, not_decoded)

print_blkpg_req == Curly(printxval ++ Vals(2) ++ (v \cup Curly(Vals(5))))
block_numbers == Entry(sep ** v) \cup OnExit(v)
block_structures ==
    LET E(A) == Entry(sep ** A)
    IN  E(v \cup Curly(Vals(2))) \cup Exit(sep ** (v \cup Curly(Vals(4))), sep ** v)
        \cup E(v \cup print_blkpg_req)
        \cup Call(sep ** (v \cup Curly(Vals(6))), sep ** (v \cup Curly(v)), sep ** v)
block_ioctl == block_numbers \cup block_structures

(* The bracket is opened on entry if the request can be read, and closed   *)
(* on exit in any case.                                                    *)
print_sg_io_buffer == nothing \cup Items(v)
print_sg_io_req ==
    {<<"{">>} ** ((Vals(2) ++ (named ** Square(print_sg_io_buffer)) ++ Vals(5))
                  ** Opt(sep ** named ** Square(printstr)))
print_sg_io_res ==
    Opt(sep ** named ** Square(printstr))
    ** sep ** (Vals(2) ++ (named ** Square(print_sg_io_buffer)) ++ Vals(5)) ** {<<"}">>}
scsi_ioctl ==
    Call(sep ** (v \cup print_sg_io_req), print_sg_io_res \cup {<<"}">>}, {<<"}">>})
    \cup Entry(sep ** v)

loop_ioctl ==
    LET flags == named ** printflags(loop_flags_options, TRUE)
        brief == Curly((Vals(2) ++ flags) ++ Vals(2))
        crypt == Curly((Vals(4) ++ flags) ++ Vals(3))
                 \cup Curly((Vals(4) ++ flags) ++ Vals(4))
        full  == Curly((Vals(7) ++ flags) ++ Vals(2)
                       ++ (named ** Curly(Vals(2))) ++ (named ** Curly(Vals(4))))
                 \cup Curly((Vals(8) ++ flags) ++ Vals(3) ++ (named ** Curly(Vals(2))))
        X     == (sep ** (brief \cup crypt \cup full)) \cup not_decoded \cup nothing
    IN  Exit(X, X)

mtd_ranges ==
    Curly(v ++ (named ** printflags(mtd_flags_options, TRUE)) ++ Vals(5))
    \cup Curly(Vals(2)) \cup Curly(Vals(3)) \cup Curly(Vals(4))
(* Two layouts are printed without the bracket that closes the structure. *)
mtd_layouts ==
    LET open  == {<<"{">>}
        list  == named ** Curly(Items(v))
        pairs == named ** Curly(Items(Curly(Vals(2))))
    IN  (open ** (Vals(2) ++ pairs ++ list)) \cup (open ** (v ++ list ++ v ++ pairs))
mtd_requests == Curly(Vals(4)) \cup Curly(Vals(7)) \cup Square(v) \cup print_loff_t
mtd_ioctl ==
    OnExit(mtd_ranges \cup mtd_layouts \cup mtd_requests) \cup Exit(not_decoded, not_decoded)
ubi_ioctl ==
    LET X == Curly(Vals(6)) \cup Curly(Vals(2)) \cup v \cup Curly(Vals(4))
             \cup Curly(v ++ (named ** Square(List(Curly(Vals(3))))))
    IN  OnExit(X) \cup Exit(not_decoded, not_decoded)

ioctl_decode ==
    term_ioctl \cup sock_ioctl \cup rtc_ioctl \cup block_ioctl \cup scsi_ioctl
    \cup loop_ioctl \cup mtd_ioctl \cup ubi_ioctl \cup Exit(not_decoded, not_decoded)

(* Several names of one command are joined by " or ".  What no decoder     *)
(* has printed is printed as a number.                                     *)
sys_ioctl ==
    LET cmds == (printfd ++ v) \cup (printfd ++ (v ** bar ** v))
    IN  {[c EXCEPT !.in = x \o @, !.out = IF @ = <<"0">> THEN <<",", "v">> ELSE @] :
            c \in ioctl_decode, x \in cmds}

-----------------------------------------------------------------------------
(* stream.c: with -s 0 every list is elided.  What does not fit into the   *)
(* buffer of 1024 bytes is left out piece by piece, so that a member may   *)
(* lack its beginning.                                                     *)
pollflags == NoZero

decode_poll(left) ==
    LET fds   == Curly(v) \cup Curly(v ++ (named ** printflags(pollflags, TRUE)))
        list  == Square(Reading(fds)) \cup (Square(v) ** bar ** v)
                 \cup (Square(fds ++ v) ** bar ** v)
        ready == Curly(v ++ (named ** printflags(pollflags, TRUE)))
        cut   == {<<"[">>} ** (ready ++ v) ** {<<"}", "]">>}
        aux   == Square(Items(ready)) \cup Square(v) \cup Square(ready ++ v) \cup cut
    IN  Explained(v \cup Opt(aux) \cup
                  IF left THEN (named ** sprint_timespec) \cup (aux ++ (named ** sprint_timespec))
                  ELSE {},
                  Entry((v \cup list) ++ v))
sys_poll  == ThenIn(decode_poll(FALSE), sep ** v)
sys_ppoll == ThenIn(decode_poll(TRUE), sep ** Args(<<print_timespec, print_sigset, v>>))

-----------------------------------------------------------------------------
(* quota.c *)

xfs_quota_flags == NoZero
xfs_dqblk_flags == NoZero
if_dqblk_valid  == NoZero
if_dqinfo_valid == NoZero

(* The limits of a user, in the four formats. *)
quota_limits ==
    LET xfs == v ++ (named ** printflags(xfs_dqblk_flags, TRUE))
    IN  Curly(Vals(8) ++ (named ** printflags(if_dqblk_valid, TRUE)))
        \cup Curly(Vals(7)) \cup Curly(Vals(8)) \cup Curly(xfs ++ Vals(9)) \cup Curly(xfs ++ Vals(15))
(* The format, the grace times, the statistics. *)
quota_state ==
    LET flags == printflags(xfs_quota_flags, TRUE)
    IN  Curly(v) \cup Curly(Vals(3) ++ (named ** printflags(if_dqinfo_valid, TRUE)))
        \cup Curly(Vals(6)) \cup Curly(Vals(8)) \cup Curly(Vals(9)) \cup Curly(Vals(2))
        \cup Curly(v ++ (named ** flags) ++ Vals(12)) \cup Curly(flags)
decode_cmd_data == v \cup (Curly(v) ** bar ** v) \cup quota_limits \cup quota_state
sys_quotactl ==
    Both(((printxval ** bar ** printxval) ++ printpath ++ v) ** sep, decode_cmd_data)
    \cup printargs(4)

-----------------------------------------------------------------------------
(* bjm.c *)

modflags == HasZero

sys_query_module ==
    LET info    == v \cup Curly(Vals(2) ++ (named ** printflags(modflags, TRUE)) ++ v)
        symbol  == Curly(Vals(2))
        symbols == Curly(v \cup nothing \cup symbol \cup (symbol ** bar ** symbol))
    IN  Call((printstr ++ printxval) ** sep,
             Vals(3) \cup (info ++ v) \cup (Curly(List(v)) ++ v) \cup (symbols ++ v)
               \cup (printstr ++ v),
             Vals(3))
sys_create_module == Entry(printpath ++ v)
sys_init_module   == Entry(Vals(2) ++ printstr)
=============================================================================
