--------------------------- MODULE DecodeProcess ----------------------------
(* What the decoders of resource.c, ipc.c, system.c and process.c print:   *)
(* see Lines for the form.                                                 *)
EXTENDS DecodeSignal

-----------------------------------------------------------------------------
(* resource.c *)

sprint_rlim64   == v
sprint_rlim32   == v
print_rlimit64  == v \cup Curly(sprint_rlim64 ++ sprint_rlim64)
print_rlimit32  == v \cup Curly(sprint_rlim32 ++ sprint_rlim32)
decode_rlimit64(err) == v \cup IF err THEN {} ELSE print_rlimit64
decode_rlimit(err)   == v \cup IF err THEN {} ELSE print_rlimit32 \cup print_rlimit64

sys_getrlimit == Call(printxval ** sep, decode_rlimit(FALSE), decode_rlimit(TRUE))
sys_setrlimit == Entry(printxval ++ decode_rlimit(FALSE))
sys_prlimit64 ==
    Call((v ++ printxval ++ decode_rlimit64(FALSE)) ** sep,
         decode_rlimit64(FALSE), decode_rlimit64(TRUE))

printrusage(err) ==
    LET tv == named ** Curly(Vals(2))
    IN  v \cup IF err THEN {}
               ELSE Curly(v) \cup Curly(tv ++ tv ++ Vals(14)) \cup Curly(tv ++ tv ++ v)
sys_getrusage == Call(printxval ** sep, printrusage(FALSE), printrusage(TRUE))

(* No separator after the load averages, and a bracket closed in the       *)
(* middle of the structure.                                                *)
sys_sysinfo ==
    Exit(v \cup Curly(v)
           \cup (Curly((v ++ (named ** Square(Vals(3)))) ** Vals(4)) ** Vals(3) ** {<<"}">>}),
         v)

sys_getpriority == Entry(printxval ++ v)
sys_setpriority == Entry(printxval ++ Vals(2))
sys_times       == Exit(v \cup Curly(v) \cup Curly(Vals(4)), v)

-----------------------------------------------------------------------------
(* ipc.c *)

resource_flags     == NoZero
shm_resource_flags == NoZero
shm_flags          == NoZero
ipc_msg_flags      == NoZero
semop_flags        == NoZero

(* Flags joined to the permission bits, if there are any flags. *)
WithMode(xlat) ==
    {IF f = <<>> THEN <<"v">> ELSE f \o <<"|", "v">> : f \in printflags(xlat, FALSE)}
PRINTCTL == v \cup (v ** bar ** v)

sys_msgget == Entry(v ++ WithMode(resource_flags))
sys_msgctl == Entry(v ++ PRINTCTL ++ v)

tprint_msgsnd == (v \cup Curly(Vals(2))) ++ v ++ printflags(ipc_msg_flags, TRUE)
sys_msgsnd    == Entry(v ++ tprint_msgsnd)

tprint_msgrcv(err) == (v \cup IF err THEN {} ELSE Curly(Vals(2))) ++ Vals(2)
sys_msgrcv ==
    LET X(err) == (tprint_msgrcv(err) \cup Vals(2)) ++ printflags(ipc_msg_flags, TRUE)
    IN  Call(v ** sep, X(FALSE), X(TRUE))

(* Some of the operations, "{???}" where one cannot be read, "..." for the *)
(* rest; the address if none can be shown.                                 *)
tprint_sembuf ==
    LET op == Curly(Vals(2) ++ printflags(semop_flags, TRUE))
    IN  Vals(2) \cup (Curly(Items(op) \cup (op ++ v) \cup (op ++ Curly(v) ++ v)) ++ v)
sys_semop      == Entry(v ++ tprint_sembuf)
sys_semtimedop == Entry(v ++ tprint_sembuf ++ printtv)
sys_semget     == Entry(Vals(2) ++ WithMode(resource_flags))
sys_semctl     == Entry(Vals(2) ++ PRINTCTL ++ v)
sys_shmget     == Entry(Vals(2) ++ WithMode(shm_resource_flags))
sys_shmctl     == Entry(v ++ PRINTCTL ++ v)

(* The 32-bit call stores the address: "?" for one that cannot be read. *)
sys_shmat ==
    LET X == Vals(2) ++ printflags(shm_flags, TRUE)
    IN  Exit(X, X) \cup NoValue(Succeeding(Exit(X, X)))
sys_shmdt      == Entry(v)

sys_mq_open ==
    Entry((printpath ++ tprint_open_modes)
          ** Opt(sep ** (v ++ (Curly(v) \cup Curly(Vals(2))))))
sys_mq_timedsend    == Entry(v ++ printstr ++ Vals(2) ++ printtv)
sys_mq_timedreceive == Both(v ** sep, printstr ++ Vals(2) ++ printtv)
sys_mq_notify       == Entry(v ++ printsigevent)
printmqattr == v \cup Curly(v) \cup Curly((named ** tprint_open_modes) ++ Vals(3))
sys_mq_getsetattr   == Both((v ++ printmqattr) ** sep, printmqattr)
sys_ipc             == printargs(6)

-----------------------------------------------------------------------------
(* system.c *)

mount_flags  == NoZero
umount_flags == NoZero
bootflags1   == NoZero
bootflags2   == NoZero
bootflags3   == HasZero
capabilities == NoZero

sys_mount ==
    Entry(printpath ++ printpath ++ (v \cup printstr) ++ printflags(mount_flags, TRUE)
          ++ (v \cup printstr))
sys_umount2     == Entry(printstr ++ printflags(umount_flags, TRUE))
sys_personality == Entry(printxval)

sys_syslog ==
    Entry(printxval ++ Vals(2))
    \cup Call(printxval ** sep, printstr ++ v, v ++ v)

sys_reboot ==
    Entry((printflags(bootflags1, TRUE) ++ printflags(bootflags2, TRUE)
           ++ printflags(bootflags3, TRUE)) ** Opt(sep ** printstr))

print_cap_header    == v \cup Curly(printxval ++ v)
print_cap_data(err) ==
    LET caps == printflags(capabilities, TRUE)
    IN  v \cup IF err THEN {} ELSE Curly(caps ++ caps ++ caps)
sys_capget == Call(print_cap_header ** sep, print_cap_data(FALSE), print_cap_data(TRUE))
sys_capset == Entry(print_cap_header ++ print_cap_data(FALSE))

(* The names, then the values; the bracket around them all is never        *)
(* closed.                                                                 *)
sys_sysctl ==
    LET open == {<<"{">>}
    IN  printargs(1)
        \cup Entry(Curly(Vals(6)))
        \cup Both(open ** ((Curly(List(v)) ++ v) ** sep), (v \cup printpath) ++ v
                  ++ (v \cup printpath) ++ v)

-----------------------------------------------------------------------------
(* process.c *)

clone_flags             == NoZero
wait4_options           == NoZero
ptrace_setoptions_flags == NoZero

(* tprint_iov, printed of the tracee's vectors of process_vm_readv and of  *)
(* a register set (DecodeIo has the decoders of io.c themselves).          *)
vector ==
    v \cup Square(nothing) \cup Square(v) \cup Square(Items(Curly(Vals(2))))
      \cup Square(Curly(Vals(2)) ++ v) \cup (Square(v) ** bar ** v)

unalignctl_string == v
sys_prctl ==
    Entry(printxval) \cup Entry(printxval ++ v) \cup Entry(printxval ++ Vals(4))
    \cup Both(printxval, sep ** (v \cup Curly(v)))
    \cup Explained(unalignctl_string, Entry(printxval))

sys_sethostname   == Entry(printpathn ++ v)
sys_setdomainname == Entry(printpathn ++ v)

(* Finishes its line when it is entered: nothing is printed after that. *)
sys_exit          == Entry(v)

(* Without any flag and without a signal nothing follows "flags=". *)
sys_clone ==
    LET names == {<<"flags">>} ** Opt(bar ** v)
        flags == named ** (nothing \cup names)
        text  == (v ++ flags) ** Opt(sep ** v) ** Opt(sep ** v) ** Opt(sep ** v)
    IN  Exit(text, text)
sys_unshare  == Entry(printflags(clone_flags, TRUE))
sys_fork     == Entry(nothing)
sys_vfork    == Entry(nothing)
sys_getuid   == Entry(nothing)
sys_setfsuid == Entry(v)
sys_setuid   == Entry(v)
sys_getresuid ==
    LET id == v \cup Square(v)
    IN  Exit(id ++ id ++ id, Vals(3))
sys_setreuid  == Entry(Vals(2))
sys_setresuid == Entry(Vals(3))

(* A list of groups: empty, absent, unreadable at once or part way. *)
groups ==
    v \cup Square(List(v)) \cup (Square(Items(v)) ** bar ** v)
sys_setgroups   == Entry(v ++ groups)
sys_getgroups   == Call(v ** sep, groups, v)
sys_setgroups32 == Entry(v ++ groups)
sys_getgroups32 == Call(v ** sep, groups, v)

(* Strings up to the NULL.  A pointer that cannot be read ends the list    *)
(* with its address, written right after the last string.                  *)
printargv == List(v) \cup v \cup (v ** v)
printargc == v
sys_execve ==
    Entry(printpath ++ (v \cup Square(printargv)) ++ (v \cup Square(printargc \cup printargv)))

printstatus == Square(Curly(v)) \cup Square(Curly(v) ** bar ** v) \cup Square(v)
printwaitn(n) ==
    LET status == v \cup printstatus
        rest(err) == printflags(wait4_options, TRUE)
                     ** IF n = 4 THEN sep ** (v \cup printrusage(err)) ELSE nothing
    IN  Call(v ** sep, status ++ rest(FALSE), v ++ rest(TRUE))
sys_waitpid == printwaitn(3)
sys_wait4   == printwaitn(4)
sys_waitid ==
    LET rest(err) == printflags(wait4_options, TRUE) ** Opt(sep ** (v \cup printrusage(err)))
    IN  Call((printxval ++ v) ** sep, printsiginfo_at(FALSE) ++ rest(FALSE),
             printsiginfo_at(TRUE) ++ rest(TRUE))
sys_uname ==
    Exit(v \cup Curly(v) \cup Curly(Vals(6)) \cup Curly(Vals(3)), v)

(* An offset into the registers: a name, "offsetof(struct user, x)", or    *)
(* one of them and a displacement.                                         *)
struct_user_offsets == v \cup (v ** Paren(Vals(2)))
sys_ptrace ==
    LET E(addr) == (printxval ++ v ++ addr) ** sep
        user    == v \cup struct_user_offsets \cup (struct_user_offsets ** bar ** v)
    IN  Both(E(user), printnum)
        \cup Entry(E(user) ** v)
        \cup Entry(E(v) ** (printsignal \cup printflags(ptrace_setoptions_flags, TRUE)
                            \cup printsiginfo_at(FALSE) \cup vector \cup v))
        \cup Call(E(v), printsiginfo_at(FALSE), printsiginfo_at(TRUE))
        \cup Both(E(printxval), vector)

futexarg == (v \cup (v ** bar ** v)) ++ v
sys_futex ==
    LET extra == nothing \cup (sep ** v) \cup (sep ** printtv) \cup (sep ** (printtv ++ v))
                 \cup (sep ** Vals(2)) \cup (sep ** Vals(3))
                 \cup (sep ** (Vals(2) ++ Curly(futexarg ++ futexarg)))
    IN  Entry((v ++ printxval ++ v) ** extra)

(* Words of the mask; "..." or "???" for a rest that is not shown. *)
print_affinitylist == v \cup Curly(List(v)) \cup Curly(Vals(2))
sys_sched_setaffinity == Entry(Vals(2) ++ print_affinitylist)
sys_sched_getaffinity == Call(Vals(2) ** sep, print_affinitylist, v)
sys_get_robust_list   == Call(v ** sep, (v \cup Square(v)) ++ (v \cup Square(v)), Vals(2))

sys_sched_getscheduler     == Explained(Opt(v), Entry(v))
sys_sched_setscheduler     == Entry(v ++ printxval ++ (v \cup Curly(v)))
sys_sched_getparam         == Both(v ** sep, v \cup Curly(v))
sys_sched_setparam         == Entry(v ++ (v \cup Curly(v)))
sys_sched_get_priority_min == Entry(printxval)
sys_sched_rr_get_interval  == Call(v ** sep, print_timespec, v)

sys_arch_prctl ==
    Entry(printxval) \cup Entry(printxval ++ v)
    \cup Call(printxval, sep ** (v \cup Square(v)), sep ** v)
sys_getcpu ==
    LET X == (v \cup Square(v)) ++ (v \cup Square(v)) ++ v
    IN  Exit(X, X)

(* The write decodes on entry, where the error it looks at is the previous *)
(* call's: either form may be printed.                                     *)
sys_process_vm_readv ==
    Call(v ** sep, vector ++ v ++ vector ++ Vals(2), Vals(5))
sys_process_vm_writev ==
    Entry(v ++ vector ++ v ++ vector ++ Vals(2)) \cup Entry(v ++ Vals(5))
=============================================================================
